---- MODULE Spec2Model ----
(***************************************************************************)
(* A model of the task store of src/tasks.py: the backing file tasks.json, *)
(* load_tasks / save_tasks, and the operations new_task, view_task,        *)
(* delete_task, update_status, update_task and list_tasks.  Every          *)
(* operation is load -> operate -> (optionally) save, so the only state    *)
(* that survives an operation is the backing file.                         *)
(*                                                                         *)
(* Encoding of Python values:                                              *)
(*   - a text (str) is a sequence of one-character strings, so that        *)
(*     `search in task.title` is a real substring test;                    *)
(*   - None given for a text or a tag list is NoneVal;                     *)
(*   - a timestamp string 'YYYY-MM-DD HH:MM' is the number of its minute   *)
(*     (>= 1): the strings compare as their minutes do; the sort sentinel  *)
(*     '0000-00-00 00:00' is SortSentinel (0), below every timestamp, and  *)
(*     None in a timestamp field is NoneTime (-1).                         *)
(***************************************************************************)
EXTENDS Integers, Sequences, FiniteSets, TLC

VARIABLES
    fileKind,   \* tasks.json: "absent", "json" (well-formed) or "corrupt"
    fileData,   \* the records in tasks.json (whole ones only, when "corrupt")
    now,        \* the wall clock, in minutes since the start (datetime.now())
    nops,       \* number of store operations run so far (bounds the runs)
    nCreated,   \* number of new_task calls that completed so far
    last,       \* what the last operation was, was given and gave back
    procs       \* new_task run as separate processes: where each one is

vars == <<fileKind, fileData, now, nops, nCreated, last, procs>>

----------------------------------------------------------------------------
(* Bounds of the model *)

MaxOps == 4          \* operations that write (or try to) per run
MaxId == 3           \* new_task is not run once the highest id is MaxId
MaxClock == 1        \* the clock stops after so many minutes
MaxOpsFault == 3     \* the same, in the runs where writes may fail
MaxOpsQuery == 3     \* the same, in the runs with queries
MaxOpsAll == 2       \* the same, in the runs with every operation
MaxSaved == 2        \* tasks in a collection handed to save_tasks directly
MaxRaceOps == 3      \* new_task calls started by the concurrent processes

----------------------------------------------------------------------------
(* Python values *)

NoneVal == <<"<None>">>
NoneTime == -1
SortSentinel == 0

\* Python truthiness of a str / list argument: None, "" and [] are falsy.
Truthy(x) == x # NoneVal /\ x # << >>

\* datetime.now().strftime('%Y-%m-%d %H:%M') at minute t of the clock: the
\* number of the timestamp, which is above SortSentinel.
Strftime(t) == t + 1

\* `needle in text` for two str.
IsSubstring(needle, text) ==
    \E i \in 0..(Len(text) - Len(needle)) :
        SubSeq(text, i + 1, i + Len(needle)) = needle

\* `tag in task.tags` for a list of tags.
InList(x, list) == \E i \in 1..Len(list) : list[i] = x

Statuses == {"todo", "in_progress", "done"}

----------------------------------------------------------------------------
(* class Task *)

\* Mutant of NewTaskObj: `self.tags = tags`, without the default.
NewTaskObjNoTagDefault(title, desc, tags, t) ==
    [id          |-> 0,
     title       |-> title,
     desc        |-> desc,
     status      |-> "todo",
     tags        |-> tags,
     created_at  |-> Strftime(t),
     started_at  |-> NoneTime,
     finished_at |-> NoneTime]

\* Task(title, desc, tags) at clock t; id is assigned by the caller.
NewTaskObj(title, desc, tags, t) ==
    [id          |-> 0,
     title       |-> title,
     desc        |-> desc,
     status      |-> "todo",
     tags        |-> IF Truthy(tags) THEN tags ELSE << >>,
     created_at  |-> Strftime(t),
     started_at  |-> NoneTime,
     finished_at |-> NoneTime]

----------------------------------------------------------------------------
(* Persistence: load_tasks, save_tasks *)

\* Mutant of LoadTask: created_at of the record is not taken over, the
\* task keeps the time at which the constructor ran.
LoadTaskFreshCreated(d) ==
    [NewTaskObj(d.title, d.desc, d.tags, now) EXCEPT
        !.id = d.id,
        !.status = d.status,
        !.started_at = d.started_at,
        !.finished_at = d.finished_at]

\* Mutant of LoadTask: the status of the record is not taken over.
LoadTaskNoStatus(d) ==
    [NewTaskObj(d.title, d.desc, d.tags, 0) EXCEPT
        !.id = d.id,
        !.created_at = d.created_at,
        !.started_at = d.started_at,
        !.finished_at = d.finished_at]

\* One record of the file turned into a Task object.
LoadTask(d) ==
    [NewTaskObj(d.title, d.desc, d.tags, 0) EXCEPT
        !.id = d.id,
        !.status = d.status,
        !.created_at = d.created_at,
        !.started_at = d.started_at,
        !.finished_at = d.finished_at]

\* Mutant of LoadTasks: the records that parse are returned, the error
\* at the end of the file is passed over.
LoadTasksLenient == [i \in 1..Len(fileData) |-> fileData[i]]

\* load_tasks() on a file of the given kind and content: [] for an absent
\* file and for a file that cannot be parsed.
LoadFile(kind, data) ==
    IF kind = "json"
    THEN [i \in 1..Len(data) |-> LoadTask(data[i])]
    ELSE << >>

\* load_tasks() on the file as it is now.
LoadTasks == LoadFile(fileKind, fileData)

\* What load_tasks prints: its diagnostic for a file that does not parse.
LoadDiag == IF fileKind = "corrupt" THEN {"invalid_json"} ELSE {}

\* task.__dict__ for every task, as json.dump writes it.
TaskDicts(tasks) == [i \in 1..Len(tasks) |-> tasks[i]]

\* The outcomes of open(FILE_NAME, "w") + json.dump:
\*   "ok"          the whole collection is written;
\*   "open_fails"  open() raises (permission denied): the file is untouched;
\*   "dump_fails"  the write raises after open() truncated the file (disk
\*                 full, a value json cannot encode): a partial file is left,
\*                 which json.load rejects; fileData keeps the records that
\*                 were written whole (all but the last).
WriteOutcomes == {"ok", "open_fails", "dump_fails"}

FileKindAfterSave(out) ==
    CASE out = "ok" -> "json"
      [] out = "open_fails" -> fileKind
      [] out = "dump_fails" -> "corrupt"

FileDataAfterSave(tasks, out) ==
    CASE out = "ok" -> TaskDicts(tasks)
      [] out = "open_fails" -> fileData
      [] out = "dump_fails" -> SubSeq(TaskDicts(tasks), 1, Len(tasks) - 1)

\* What save_tasks raises.  Its first handler names json.JSONEncodeError,
\* which the json module does not have: when the write raises, evaluating
\* that handler raises AttributeError, and the handlers after it never run.
SaveRaises(out) == IF out = "ok" THEN "none" ELSE "AttributeError"

\* What save_tasks prints: nothing, as the handlers that print are the ones
\* that never run.
SaveDiag(out) == {}

----------------------------------------------------------------------------
(* What an operation leaves in `last` *)

NoLast ==
    [op |-> "none", id |-> [isInt |-> TRUE, val |-> 0], action |-> "none",
     args |-> << >>, found |-> FALSE, ret |-> "None", result |-> << >>,
     reads |-> 0, writes |-> 0, out |-> "none", diag |-> {}]

\* The processes that run new_task side by side on the one file.
Procs == {1, 2}

\* A process that has not called new_task.
IdleProc == [pc |-> "idle", tasks |-> << >>, task |-> << >>]

Init ==
    /\ fileKind = "absent"
    /\ fileData = << >>
    /\ now = 0
    /\ nops = 0
    /\ nCreated = 0
    /\ last = NoLast
    /\ procs = [p \in Procs |-> IdleProc]

\* An operation that tries to write with outcome `out` is within the bounds.
CanWrite(out) == nops < MaxOps /\ out \in WriteOutcomes

----------------------------------------------------------------------------
(* new_task *)

\* Mutant of HighestId: the number of tasks taken for the highest id.
HighestIdByCount(tasks) == Len(tasks)

\* max(task.id for task in tasks), or 0 for an empty list.
HighestId(tasks) ==
    IF tasks = << >> THEN 0
    ELSE CHOOSE m \in {tasks[i].id : i \in 1..Len(tasks)} :
            \A i \in 1..Len(tasks) : tasks[i].id <= m

CreateInputs ==
    { [title |-> <<"c", "a">>, desc |-> << >>, tags |-> NoneVal],
      [title |-> <<"b">>, desc |-> <<"a", "b">>, tags |-> <<"x", "y">>] }

NewTask(inp, out) ==
    LET tasks == LoadTasks
        task == [NewTaskObj(inp.title, inp.desc, inp.tags, now) EXCEPT
                    !.id = HighestId(tasks) + 1]
        appended == Append(tasks, task)
    IN  /\ CanWrite(out)
        /\ HighestId(tasks) < MaxId
        /\ fileKind' = FileKindAfterSave(out)
        /\ fileData' = FileDataAfterSave(appended, out)
        /\ nops' = nops + 1
        /\ nCreated' = IF SaveRaises(out) = "none" THEN nCreated + 1 ELSE nCreated
        /\ last' = [NoLast EXCEPT
                      !.op = "new_task", !.id = [isInt |-> TRUE, val |-> task.id],
                      !.ret = IF SaveRaises(out) = "none" THEN "None"
                              ELSE SaveRaises(out),
                      !.args = inp, !.result = <<task>>,
                      !.reads = 1, !.writes = 1, !.out = out,
                      !.diag = LoadDiag \cup SaveDiag(out)]
        /\ UNCHANGED <<now, procs>>

----------------------------------------------------------------------------
(* Task ids as the callers give them *)

\* An id argument: an int (val), or something that is no int (the str "1").
IntId(v) == [isInt |-> TRUE, val |-> v]

\* The ids a task can have within the bounds.
TaskIds == {IntId(v) : v \in 1..MaxId}

\* Every id argument: the above, 0, and the str "1".
IdArgs == TaskIds \cup {IntId(0), [isInt |-> FALSE, val |-> 1]}

\* `task.id == task_id`
IdEq(task, a) == a.isInt /\ task.id = a.val

\* Mutant of InvalidId: only the negative integers are turned away.
InvalidIdNegativeOnly(a) == ~a.isInt \/ a.val < 0

\* `not isinstance(task_id, int) or task_id <= 0`
InvalidId(a) == ~a.isInt \/ a.val <= 0

\* What view_task and update_status print for such an id.
InvalidIdDiag == {"invalid_id"}

\* Index of the first task of the list with `task.id == task_id`, 0 if none:
\* `for task in tasks: if task.id == task_id: ... break / return`.
FirstMatch(tasks, a) ==
    IF \E i \in 1..Len(tasks) : IdEq(tasks[i], a)
    THEN CHOOSE i \in 1..Len(tasks) :
            /\ IdEq(tasks[i], a)
            /\ \A j \in 1..(i - 1) : ~IdEq(tasks[j], a)
    ELSE 0

\* Mutant of RemoveAt: tasks.pop(), whatever task was found.
RemoveLast(tasks, k) == SubSeq(tasks, 1, Len(tasks) - 1)

\* tasks.remove(tasks[k])
RemoveAt(tasks, k) ==
    [i \in 1..(Len(tasks) - 1) |-> IF i < k THEN tasks[i] ELSE tasks[i + 1]]

----------------------------------------------------------------------------
(* view_task *)

ViewTask(a) ==
    LET tasks == LoadTasks
        k == FirstMatch(tasks, a)
    IN  /\ last' = IF InvalidId(a)
                   THEN [NoLast EXCEPT !.op = "view_task", !.id = a,
                                        !.diag = InvalidIdDiag]
                   ELSE [NoLast EXCEPT
                           !.op = "view_task", !.id = a, !.found = (k # 0),
                           !.result = IF k # 0 THEN <<tasks[k]>> ELSE << >>,
                           !.reads = 1, !.diag = LoadDiag]
        /\ UNCHANGED <<fileKind, fileData, now, nops, nCreated, procs>>

----------------------------------------------------------------------------
(* delete_task *)

\* Mutant of DeleteDiag: the success message printed whatever was found.
DeleteDiagAlwaysDeleted(found, out) ==
    IF SaveRaises(out) = "none" THEN {"deleted"} ELSE {}

\* What delete_task prints: the success message comes after save_tasks, so
\* it is not printed when save_tasks raises.
DeleteDiag(found, out) ==
    IF ~found THEN {"not_found"}
    ELSE IF SaveRaises(out) = "none" THEN {"deleted"} ELSE {}

\* Mutant of DeleteTask: save_tasks called after the if, found or not.
DeleteTaskAlwaysSaves(a, out) ==
    LET tasks == LoadTasks
        k == FirstMatch(tasks, a)
    IN  /\ CanWrite(out)
        /\ fileKind' = FileKindAfterSave(out)
        /\ fileData' = FileDataAfterSave(
                            IF k # 0 THEN RemoveAt(tasks, k) ELSE tasks, out)
        /\ nops' = nops + 1
        /\ last' = [NoLast EXCEPT
                      !.op = "delete_task", !.id = a, !.found = (k # 0),
                      !.ret = IF SaveRaises(out) = "none" THEN "None"
                              ELSE SaveRaises(out),
                      !.reads = 1, !.writes = 1, !.out = out,
                      !.diag = LoadDiag \cup SaveDiag(out)
                                   \cup DeleteDiag(k # 0, out)]
        /\ UNCHANGED <<now, nCreated, procs>>

DeleteTask(a, out) ==
    LET tasks == LoadTasks
        k == FirstMatch(tasks, a)
    IN  IF k # 0
        THEN /\ CanWrite(out)
             /\ fileKind' = FileKindAfterSave(out)
             /\ fileData' = FileDataAfterSave(RemoveAt(tasks, k), out)
             /\ nops' = nops + 1
             /\ last' = [NoLast EXCEPT
                           !.op = "delete_task", !.id = a, !.found = TRUE,
                           !.ret = IF SaveRaises(out) = "none" THEN "None"
                                   ELSE SaveRaises(out),
                           !.reads = 1, !.writes = 1, !.out = out,
                           !.diag = LoadDiag \cup SaveDiag(out)
                                        \cup DeleteDiag(TRUE, out)]
             /\ UNCHANGED <<now, nCreated, procs>>
        ELSE /\ out = "ok"
             /\ last' = [NoLast EXCEPT
                           !.op = "delete_task", !.id = a, !.reads = 1,
                           !.diag = LoadDiag \cup DeleteDiag(FALSE, out)]
             /\ UNCHANGED <<fileKind, fileData, now, nops, nCreated, procs>>

----------------------------------------------------------------------------
(* update_status *)

StatusActions == {"start", "finish", "in_progress"}

\* Mutant of ApplyStatus: finish takes the task out of "started".
ApplyStatusFinishClears(task, action, t) ==
    CASE action = "start" ->
            [task EXCEPT !.status = "in_progress", !.started_at = Strftime(t)]
      [] action = "finish" ->
            [task EXCEPT !.status = "done", !.finished_at = Strftime(t),
                         !.started_at = NoneTime]
      [] OTHER -> task

\* Mutant of ApplyStatus: start wipes the finish time of the task.
ApplyStatusStartClears(task, action, t) ==
    CASE action = "start" ->
            [task EXCEPT !.status = "in_progress", !.started_at = Strftime(t),
                         !.finished_at = NoneTime]
      [] action = "finish" ->
            [task EXCEPT !.status = "done", !.finished_at = Strftime(t)]
      [] OTHER -> task

\* Mutant of ApplyStatus: a task that is done cannot be started again.
ApplyStatusForwardOnly(task, action, t) ==
    CASE action = "start" /\ task.status # "done" ->
            [task EXCEPT !.status = "in_progress", !.started_at = Strftime(t)]
      [] action = "finish" ->
            [task EXCEPT !.status = "done", !.finished_at = Strftime(t)]
      [] OTHER -> task

\* Mutant of ApplyStatus: finish gives a task that was never started the
\* time of the finish for its start as well.
ApplyStatusFinishStarts(task, action, t) ==
    CASE action = "start" ->
            [task EXCEPT !.status = "in_progress", !.started_at = Strftime(t)]
      [] action = "finish" ->
            [task EXCEPT !.status = "done", !.finished_at = Strftime(t),
                         !.started_at = IF @ = NoneTime THEN Strftime(t) ELSE @]
      [] OTHER -> task

\* Mutant of ApplyStatus: any other string is stored as the status.
ApplyStatusSetsRaw(task, action, t) ==
    CASE action = "start" ->
            [task EXCEPT !.status = "in_progress", !.started_at = Strftime(t)]
      [] action = "finish" ->
            [task EXCEPT !.status = "done", !.finished_at = Strftime(t)]
      [] OTHER -> [task EXCEPT !.status = action]

\* The body of the loop of update_status for the task found.
ApplyStatus(task, action, t) ==
    CASE action = "start" ->
            [task EXCEPT !.status = "in_progress", !.started_at = Strftime(t)]
      [] action = "finish" ->
            [task EXCEPT !.status = "done", !.finished_at = Strftime(t)]
      [] OTHER -> task

\* What update_status returns once it has called save_tasks: an
\* AttributeError out of save_tasks is caught by its own handler.
StatusReturn(out) == IF SaveRaises(out) = "AttributeError" THEN "False" ELSE "True"

\* What that handler prints.
StatusDiag(out) ==
    IF SaveRaises(out) = "AttributeError" THEN {"malformed_task"} ELSE {}

UpdateStatus(a, action, out) ==
    LET tasks == LoadTasks
        k == FirstMatch(tasks, a)
    IN  IF InvalidId(a)
        THEN /\ out = "ok"
             /\ last' = [NoLast EXCEPT
                           !.op = "update_status", !.id = a, !.action = action,
                           !.diag = InvalidIdDiag]
             /\ UNCHANGED <<fileKind, fileData, now, nops, nCreated, procs>>
        ELSE IF k = 0
        THEN /\ out = "ok"
             /\ last' = [NoLast EXCEPT
                           !.op = "update_status", !.id = a, !.action = action,
                           !.ret = "False", !.reads = 1, !.diag = LoadDiag]
             /\ UNCHANGED <<fileKind, fileData, now, nops, nCreated, procs>>
        ELSE /\ CanWrite(out)
             /\ fileKind' = FileKindAfterSave(out)
             /\ fileData' = FileDataAfterSave(
                                [tasks EXCEPT ![k] = ApplyStatus(tasks[k], action, now)],
                                out)
             /\ nops' = nops + 1
             /\ last' = [NoLast EXCEPT
                           !.op = "update_status", !.id = a, !.action = action,
                           !.found = TRUE, !.ret = StatusReturn(out),
                           !.reads = 1, !.writes = 1, !.out = out,
                           !.diag = LoadDiag \cup SaveDiag(out) \cup StatusDiag(out)]
             /\ UNCHANGED <<now, nCreated, procs>>

----------------------------------------------------------------------------
(* update_task *)

UpdateTitles == {<< >>, <<"d">>}
UpdateDescs == {NoneVal, <<"d">>}

\* Mutant of ApplyUpdate: `if title is not None` and `if desc is not None`.
ApplyUpdateNotNone(task, title, desc) ==
    [task EXCEPT
        !.title = IF title # NoneVal THEN title ELSE @,
        !.desc = IF desc # NoneVal THEN desc ELSE @]

\* `if title: task.title = title` and `if desc: task.desc = desc`
ApplyUpdate(task, title, desc) ==
    [task EXCEPT
        !.title = IF Truthy(title) THEN title ELSE @,
        !.desc = IF Truthy(desc) THEN desc ELSE @]

UpdateTask(a, title, desc, out) ==
    LET tasks == LoadTasks
        k == FirstMatch(tasks, a)
    IN  IF k = 0
        THEN /\ out = "ok"
             /\ last' = [NoLast EXCEPT
                           !.op = "update_task", !.id = a,
                           !.ret = "ValueError", !.reads = 1, !.diag = LoadDiag]
             /\ UNCHANGED <<fileKind, fileData, now, nops, nCreated, procs>>
        ELSE /\ CanWrite(out)
             /\ fileKind' = FileKindAfterSave(out)
             /\ fileData' = FileDataAfterSave(
                                [tasks EXCEPT ![k] = ApplyUpdate(tasks[k], title, desc)],
                                out)
             /\ nops' = nops + 1
             /\ last' = [NoLast EXCEPT
                           !.op = "update_task", !.id = a, !.found = TRUE,
                           !.ret = IF SaveRaises(out) = "none" THEN "None"
                                   ELSE SaveRaises(out),
                           !.args = [title |-> title, desc |-> desc],
                           !.reads = 1, !.writes = 1, !.out = out,
                           !.diag = LoadDiag \cup SaveDiag(out)]
             /\ UNCHANGED <<now, nCreated, procs>>

----------------------------------------------------------------------------
(* list_tasks *)

\* None given for status, tag or sort.
NoneStr == "None"

\* `if status:` / `if tag:` / `if sort:` for a str-or-None argument.
Given(x) == x # NoneStr /\ x # ""

\* Mutant of FilterSearch: the text must be in the title and in the
\* description.
FilterSearchBoth(tasks, search) ==
    LET Keep(t) == IsSubstring(search, t.title) /\ IsSubstring(search, t.desc)
    IN  IF Truthy(search) THEN SelectSeq(tasks, Keep) ELSE tasks

\* The three filters, in the order of the code.
FilterStatus(tasks, status) ==
    LET Keep(t) == t.status = status
    IN  IF Given(status) THEN SelectSeq(tasks, Keep) ELSE tasks

FilterTag(tasks, tag) ==
    LET Keep(t) == InList(tag, t.tags)
    IN  IF Given(tag) THEN SelectSeq(tasks, Keep) ELSE tasks

FilterSearch(tasks, search) ==
    LET Keep(t) == IsSubstring(search, t.title) \/ IsSubstring(search, t.desc)
    IN  IF Truthy(search) THEN SelectSeq(tasks, Keep) ELSE tasks

SortKeys == {"created_at", "started_at", "finished_at"}

\* Mutant of SortKey: a sentinel above every timestamp ('9999-99-99 99:99').
SortKeyNoneLast(task, sort) ==
    IF task[sort] = NoneTime /\ sort \in SortKeys THEN MaxClock + 2 ELSE task[sort]

\* sort_key(task): the field, or the sentinel when the field is None.
SortKey(task, sort) ==
    IF task[sort] = NoneTime /\ sort \in SortKeys THEN SortSentinel ELSE task[sort]

\* x put into the sorted list after every element whose key is not above
\* its own (list.sort is stable).
InsertSorted(sorted, x, sort) ==
    LET n == Cardinality({i \in 1..Len(sorted) :
                            SortKey(sorted[i], sort) <= SortKey(x, sort)})
    IN  SubSeq(sorted, 1, n) \o <<x>> \o SubSeq(sorted, n + 1, Len(sorted))

RECURSIVE SortTasks(_, _)
\* tasks.sort(key=sort_key)
SortTasks(tasks, sort) ==
    IF tasks = << >> THEN << >>
    ELSE InsertSorted(SortTasks(SubSeq(tasks, 1, Len(tasks) - 1), sort),
                      tasks[Len(tasks)], sort)

\* What list_tasks returns for the collection `tasks`.
ListResult(tasks, status, tag, sort, search) ==
    LET filtered == FilterSearch(FilterTag(FilterStatus(tasks, status), tag), search)
    IN  IF Given(sort) THEN SortTasks(filtered, sort) ELSE filtered

ListStatuses == {NoneStr, "done"}
ListTags == {NoneStr, "x"}
ListSearches == {NoneVal, <<"a", "b">>, <<"c">>}

\* The queries made: every filter without a sort key, and every sort key
\* with the status and tag filters.
ListArgs ==
    {[status |-> st, tag |-> tg, sort |-> NoneStr, search |-> se] :
        st \in ListStatuses, tg \in ListTags, se \in ListSearches}
    \cup
    {[status |-> st, tag |-> tg, sort |-> so, search |-> NoneVal] :
        st \in ListStatuses, tg \in ListTags, so \in SortKeys}

ListTasks(status, tag, sort, search) ==
    /\ last' = [NoLast EXCEPT
                  !.op = "list_tasks",
                  !.args = [status |-> status, tag |-> tag, sort |-> sort,
                            search |-> search],
                  !.result = ListResult(LoadTasks, status, tag, sort, search),
                  !.reads = 1, !.diag = LoadDiag]
    /\ UNCHANGED <<fileKind, fileData, now, nops, nCreated, procs>>

----------------------------------------------------------------------------
(* The clock *)

Tick ==
    /\ now < MaxClock
    /\ now' = now + 1
    /\ UNCHANGED <<fileKind, fileData, nops, nCreated, last, procs>>

----------------------------------------------------------------------------
(* Specifications *)

\* The store on a disk that works: every write succeeds.
Next ==
    \/ \E inp \in CreateInputs : NewTask(inp, "ok")
    \/ \E a \in TaskIds : DeleteTask(a, "ok")
    \/ \E a \in TaskIds, action \in StatusActions : UpdateStatus(a, action, "ok")
    \/ \E a \in TaskIds, title \in UpdateTitles, desc \in UpdateDescs :
            UpdateTask(a, title, desc, "ok")
    \/ Tick

Spec == Init /\ [][Next]_vars

\* The store on a disk where a write may fail.
NextFault ==
    \/ \E inp \in CreateInputs, out \in WriteOutcomes :
            nops < MaxOpsFault /\ NewTask(inp, out)
    \/ \E a \in TaskIds, out \in WriteOutcomes :
            nops < MaxOpsFault /\ DeleteTask(a, out)
    \/ \E a \in TaskIds, action \in StatusActions, out \in WriteOutcomes :
            nops < MaxOpsFault /\ UpdateStatus(a, action, out)
    \/ \E a \in TaskIds, title \in UpdateTitles, desc \in UpdateDescs,
          out \in WriteOutcomes :
            nops < MaxOpsFault /\ UpdateTask(a, title, desc, out)
    \/ Tick

SpecFault == Init /\ [][NextFault]_vars

\* The queries, over the stores that new_task and update_status build.
NextQuery ==
    \/ \E inp \in CreateInputs : nops < MaxOpsQuery /\ NewTask(inp, "ok")
    \/ \E a \in TaskIds, action \in {"start", "finish"} :
            nops < MaxOpsQuery /\ UpdateStatus(a, action, "ok")
    \/ \E q \in ListArgs : ListTasks(q.status, q.tag, q.sort, q.search)
    \/ \E a \in IdArgs : ViewTask(a)
    \/ Tick

SpecQuery == Init /\ [][NextQuery]_vars

\* Every operation of the module, the ids that are no positive integer
\* included, over the stores that a few writes build.
NextAll ==
    \/ \E inp \in CreateInputs : nops < MaxOpsAll /\ NewTask(inp, "ok")
    \/ \E a \in IdArgs : ViewTask(a)
    \/ \E a \in IdArgs : nops < MaxOpsAll /\ DeleteTask(a, "ok")
    \/ \E a \in IdArgs, action \in StatusActions :
            nops < MaxOpsAll /\ UpdateStatus(a, action, "ok")
    \/ \E a \in IdArgs, title \in UpdateTitles, desc \in UpdateDescs :
            nops < MaxOpsAll /\ UpdateTask(a, title, desc, "ok")
    \/ \E q \in ListArgs : ListTasks(q.status, q.tag, q.sort, q.search)
    \/ Tick

SpecAll == Init /\ [][NextAll]_vars

----------------------------------------------------------------------------
(* new_task in two processes on the same file *)

\* Process p is in new_task up to the call of save_tasks: it has loaded
\* the file, found the highest id and appended its task, all in its own
\* memory.
ProcLoad(p, inp) ==
    LET tasks == LoadTasks
        task == [NewTaskObj(inp.title, inp.desc, inp.tags, now) EXCEPT
                    !.id = HighestId(tasks) + 1]
    IN  /\ procs[p].pc \in {"idle", "saved"}
        /\ nops < MaxRaceOps
        /\ HighestId(tasks) < MaxId
        /\ procs' = [procs EXCEPT ![p] =
                        [pc |-> "loaded", tasks |-> tasks, task |-> task]]
        /\ nops' = nops + 1
        /\ UNCHANGED <<fileKind, fileData, now, nCreated, last>>

\* Mutant of ProcCollection: the file is read again right before the
\* write, and the task appended to what is there by then.
ProcCollectionReloaded(p) == Append(LoadTasks, procs[p].task)

\* The collection process p hands to save_tasks: what it loaded, and its
\* own task at the end.
ProcCollection(p) == Append(procs[p].tasks, procs[p].task)

\* Process p runs save_tasks: the file is replaced by its collection.
ProcSave(p) ==
    /\ procs[p].pc = "loaded"
    /\ fileKind' = FileKindAfterSave("ok")
    /\ fileData' = FileDataAfterSave(ProcCollection(p), "ok")
    /\ nCreated' = nCreated + 1
    /\ last' = [NoLast EXCEPT
                  !.op = "new_task", !.id = IntId(procs[p].task.id),
                  !.args = [proc |-> p], !.result = <<procs[p].task>>,
                  !.reads = 1, !.writes = 1, !.out = "ok"]
    /\ procs' = [procs EXCEPT ![p].pc = "saved"]
    /\ UNCHANGED <<now, nops>>

NextRace ==
    \/ \E p \in Procs, inp \in CreateInputs : ProcLoad(p, inp)
    \/ \E p \in Procs : ProcSave(p)
    \/ Tick

SpecRace == Init /\ [][NextRace]_vars

----------------------------------------------------------------------------
(* save_tasks followed by load_tasks *)

\* Task objects as the operations can leave them in memory: any status,
\* any tags, each of started_at and finished_at None or set.
SavedTasks ==
    [id : {0}, title : {<<"a">>}, desc : {<< >>}, status : Statuses,
     tags : {<< >>, <<"x">>, <<"x", "y">>}, created_at : {Strftime(0)},
     started_at : {NoneTime, Strftime(0)},
     finished_at : {NoneTime, Strftime(1)}]

\* save_tasks on a disk that works, then load_tasks(): the collection
\* saved is the one in the file with one more task `t` at its end.
SaveLoad(t) ==
    LET tasks == Append(LoadTasks, [t EXCEPT !.id = Len(LoadTasks) + 1])
    IN  /\ Len(LoadTasks) < MaxSaved
        /\ fileKind' = FileKindAfterSave("ok")
        /\ fileData' = FileDataAfterSave(tasks, "ok")
        /\ last' = [NoLast EXCEPT
                      !.op = "save_load", !.args = tasks,
                      !.result = LoadFile(FileKindAfterSave("ok"),
                                          FileDataAfterSave(tasks, "ok")),
                      !.reads = 1, !.writes = 1, !.out = "ok"]
        /\ UNCHANGED <<now, nops, nCreated, procs>>

NextRoundTrip == \E t \in SavedTasks : SaveLoad(t)

SpecRoundTrip == Init /\ [][NextRoundTrip]_vars

----------------------------------------------------------------------------
(* Vocabulary of the properties *)

\* The step just taken ran operation `op` (a Tick leaves `last` alone, and
\* every writing operation counts in nops).
Did(op) == last'.op = op /\ <<nops, last>>' # <<nops, last>>

\* The ids of the records of a collection.
IdsOf(tasks) == {tasks[i].id : i \in 1..Len(tasks)}

\* The record with id `v` in a collection that holds one.
TaskWithId(tasks, v) == tasks[CHOOSE i \in 1..Len(tasks) : tasks[i].id = v]

\* The stored collection as a reader sees it: empty unless the file parses.
Stored == IF fileKind = "json" THEN fileData ELSE << >>

----------------------------------------------------------------------------
(* C1 *)

\* C1: the ids assigned by successive completed new_task calls are 1, 2, 3,
\* ... in this order (strictly increasing from 1, no gaps), whatever
\* delete_task calls come in between, so that no id is assigned twice: the
\* n-th completed new_task assigns id n.
C1_IdsNeverReused ==
    last.op = "new_task" => last.id.val = nCreated

----------------------------------------------------------------------------
(* C2 *)

C2_IdsPositiveDistinct ==
    /\ \A i \in 1..Len(fileData) : fileData[i].id \in Nat \ {0}
    /\ \A i, j \in 1..Len(fileData) : fileData[i].id = fileData[j].id => i = j

\* C2: in every reachable state the ids of the stored tasks are positive
\* and pairwise distinct, and every new_task assigns the highest id of the
\* collection it found plus one, or 1 when it found none.
C2_IdsUniqueMaxPlusOne ==
    /\ C2_IdsPositiveDistinct
    /\ [][/\ C2_IdsPositiveDistinct'
          /\ Did("new_task") =>
                LET new == last'.id.val
                IN  /\ \A v \in IdsOf(Stored) : v < new
                    /\ (new - 1) \in IdsOf(Stored) \cup {0}
                    /\ Stored = << >> => new = 1]_vars

\* A new_task that found id 2 only (1 was deleted): the new task got the
\* highest id plus one, not the number of tasks plus one.
C2_Witness ==
    /\ last.op = "new_task"
    /\ IdsOf(fileData) = {2, 3}
    /\ last.id.val = 3

----------------------------------------------------------------------------
(* C3 *)

\* C3: new_task(title, desc, tags) appends exactly one record to the end of
\* the stored collection, with the title, description and tags given (no
\* tags when None is given), status todo and None for started_at and
\* finished_at, and leaves the records already there as they were, in the
\* same order.
C3_CreateAppendsOne ==
    [][Did("new_task") =>
        LET n == Len(Stored)
            new == fileData'[n + 1]
            inp == last'.args
        IN  /\ fileKind' = "json"
            /\ Len(fileData') = n + 1
            /\ \A i \in 1..n : fileData'[i] = Stored[i]
            /\ new.title = inp.title
            /\ new.desc = inp.desc
            /\ new.tags = (IF inp.tags = NoneVal THEN << >> ELSE inp.tags)
            /\ new.status = "todo"
            /\ new.started_at = NoneTime
            /\ new.finished_at = NoneTime]_vars

\* A new_task with tags given, run on a store that held two tasks, one of
\* them already started.
C3_Witness ==
    /\ last.op = "new_task"
    /\ Len(fileData) = 3
    /\ fileData[3].tags = <<"x", "y">>
    /\ fileData[1].status = "in_progress"

----------------------------------------------------------------------------
(* C4 *)

\* C4: delete_task(id) with an id in the collection removes the record with
\* that id and no other: the collection is one shorter and the other
\* records are unchanged and in the same order.  With an id that is not in
\* the collection it writes nothing: collection and file stay as they were.
C4_DeleteRemovesExactlyOne ==
    [][Did("delete_task") =>
        LET v == last'.id.val
            Others(t) == t.id # v
        IN  IF v \in IdsOf(Stored)
            THEN /\ last'.found
                 /\ fileKind' = "json"
                 /\ Len(fileData') = Len(Stored) - 1
                 /\ fileData' = SelectSeq(Stored, Others)
            ELSE /\ ~last'.found
                 /\ last'.writes = 0
                 /\ fileKind' = fileKind
                 /\ fileData' = fileData]_vars

\* A delete_task that took the middle one of three tasks away.
C4_Witness ==
    /\ last.op = "delete_task"
    /\ last.found
    /\ last.id.val = 2
    /\ Len(fileData) = 2
    /\ fileData[1].id = 1
    /\ fileData[2].id = 3

----------------------------------------------------------------------------
(* C5 *)

\* C5: for an id in the collection, update_status(id, "start") sets the
\* status of that task to in_progress and its started_at to a timestamp
\* (not None) and returns True; update_status(id, "finish") sets its status
\* to done and its finished_at to a timestamp and leaves started_at as the
\* start left it; for an id that is not in the collection update_status
\* returns False.
C5_StartThenFinish ==
    [][Did("update_status") =>
        LET v == last'.id.val
            old == TaskWithId(Stored, v)
            new == TaskWithId(fileData', v)
        IN  IF v \in IdsOf(Stored)
            THEN /\ last'.ret = "True"
                 /\ v \in IdsOf(fileData')
                 /\ last'.action = "start" =>
                        /\ new.status = "in_progress"
                        /\ new.started_at # NoneTime
                        /\ new.started_at = Strftime(now)
                 /\ last'.action = "finish" =>
                        /\ new.status = "done"
                        /\ new.finished_at # NoneTime
                        /\ new.finished_at = Strftime(now)
                        /\ new.started_at = old.started_at
            ELSE last'.ret = "False"]_vars

\* A finish of a task that was started a minute before: both timestamps
\* are set, and started_at is still the minute of the start.
C5_Witness ==
    /\ last.op = "update_status"
    /\ last.action = "finish"
    /\ last.ret = "True"
    /\ \E i \in 1..Len(fileData) :
        /\ fileData[i].id = last.id.val
        /\ fileData[i].status = "done"
        /\ fileData[i].started_at = 1
        /\ fileData[i].finished_at = 2

----------------------------------------------------------------------------
(* C6 *)

\* started_at and finished_at of task `v` before and after the step.
TimesKept(v, field) ==
    TaskWithId(Stored, v)[field] # NoneTime =>
        TaskWithId(fileData', v)[field] = TaskWithId(Stored, v)[field]

\* C6 as stated: once started_at (finished_at) of a task is not None, no
\* start, finish or update_task on that task changes its value.
C6_TimestampsSetOnce ==
    [][(Did("update_status") \/ Did("update_task")) =>
        \A v \in IdsOf(Stored) \cap IdsOf(fileData') :
            TimesKept(v, "started_at") /\ TimesKept(v, "finished_at")]_vars

\* C6 as amended: once started_at (finished_at) of a task is not None it is
\* never None again, and its value changes only when a later start (finish)
\* of that very task overwrites it with the time of that transition.
\* finish never changes started_at, start never changes finished_at, and
\* update_task changes neither.
C6_TimestampsOnlyOverwritten ==
    [][\A v \in IdsOf(Stored) \cap IdsOf(fileData') :
        \A field \in {"started_at", "finished_at"} :
            LET old == TaskWithId(Stored, v)[field]
                new == TaskWithId(fileData', v)[field]
            IN  old # NoneTime =>
                    /\ new # NoneTime
                    /\ new # old =>
                        /\ Did("update_status")
                        /\ last'.id.val = v
                        /\ last'.action =
                             (IF field = "started_at" THEN "start" ELSE "finish")
                        /\ new = Strftime(now)]_vars

\* A start of a task a minute after it was finished: finished_at, set
\* before, is still the minute of the finish.
C6_Witness ==
    /\ last.op = "update_status"
    /\ last.action = "start"
    /\ \E i \in 1..Len(fileData) :
        /\ fileData[i].id = last.id.val
        /\ fileData[i].created_at = 1
        /\ fileData[i].finished_at = 1
        /\ fileData[i].started_at = 2

----------------------------------------------------------------------------
(* C9 *)

\* C9: update_task(id, title, desc) on an id in the collection replaces
\* the title only when a non-empty title is given and the description only
\* when a non-empty description is given, and leaves every other field of
\* that task and every other task as it was; on an id that is not in the
\* collection it raises ValueError and does not write the file.
C9_UpdateOnlyGivenFields ==
    [][Did("update_task") =>
        LET v == last'.id.val
            title == last'.args.title
            desc == last'.args.desc
        IN  IF v \in IdsOf(Stored)
            THEN /\ last'.ret = "None"
                 /\ fileKind' = "json"
                 /\ Len(fileData') = Len(Stored)
                 /\ \A i \in 1..Len(Stored) :
                        LET old == Stored[i]
                            new == fileData'[i]
                        IN  IF old.id # v THEN new = old
                            ELSE /\ new.title = (IF title \in {NoneVal, << >>}
                                                 THEN old.title ELSE title)
                                 /\ new.desc = (IF desc \in {NoneVal, << >>}
                                                THEN old.desc ELSE desc)
                                 /\ [new EXCEPT !.title = old.title,
                                                !.desc = old.desc] = old
            ELSE /\ last'.ret = "ValueError"
                 /\ last'.writes = 0
                 /\ fileKind' = fileKind
                 /\ fileData' = fileData]_vars

\* An update_task with an empty title and a new description, on the first
\* of two tasks: the title stayed, the description changed.
C9_Witness ==
    /\ last.op = "update_task"
    /\ last.found
    /\ last.args = [title |-> << >>, desc |-> <<"d">>]
    /\ Len(fileData) = 2
    /\ fileData[1].id = last.id.val
    /\ fileData[1].title = <<"c", "a">>
    /\ fileData[1].desc = <<"d">>

----------------------------------------------------------------------------
(* C7 *)

\* C7: when the write of the backing file fails during new_task,
\* delete_task, update_task or update_status, the operation fails soft: no
\* exception reaches the caller, and the operation gives back what it gives
\* back when the write succeeds (None; True for update_status).
C7_WriteFailureFailsSoft ==
    last.out \in {"open_fails", "dump_fails"} =>
        last.ret = (IF last.op = "update_status" THEN "True" ELSE "None")

----------------------------------------------------------------------------
(* C8 *)

\* C8: when the backing file is there but does not parse, load_tasks gives
\* back an empty list and raises nothing, so every operation behaves as on
\* an empty store: delete_task, update_status and update_task find no task
\* and leave the file alone, and a new_task whose write succeeds replaces
\* the file by a collection that holds the new task only, with id 1.
C8_CorruptFileReadsAsEmpty ==
    [][fileKind = "corrupt" =>
        /\ LoadTasks = << >>
        /\ \A op \in {"delete_task", "update_status", "update_task"} :
            Did(op) =>
                /\ ~last'.found
                /\ last'.ret = (CASE op = "delete_task" -> "None"
                                  [] op = "update_status" -> "False"
                                  [] op = "update_task" -> "ValueError")
                /\ last'.writes = 0
                /\ fileKind' = fileKind
                /\ fileData' = fileData
        /\ (Did("new_task") /\ last'.out = "ok") =>
                /\ last'.ret = "None"
                /\ last'.id.val = 1
                /\ fileKind' = "json"
                /\ Len(fileData') = 1
                /\ fileData'[1].id = 1
                /\ fileData'[1].title = last'.args.title]_vars

\* A new_task that found a file that does not parse (the write before it
\* broke off after one whole record) and left a file with the new task
\* alone, with id 1.
C8_Witness ==
    /\ last.op = "new_task"
    /\ "invalid_json" \in last.diag
    /\ last.out = "ok"
    /\ nCreated = 2
    /\ fileKind = "json"
    /\ Len(fileData) = 1
    /\ fileData[1].id = 1

----------------------------------------------------------------------------
(* C10 *)

\* `needle` is a piece of `text`.
Within(needle, text) ==
    \E i, j \in 1..Len(text) : SubSeq(text, i, j) = needle

\* C10: list_tasks without a sort key gives back the stored tasks that pass
\* every filter given (status equal to the status given, the tag given
\* among the tags of the task, the search text within the title or within
\* the description), no other task, in the order of the store.
C10_ListFiltersInOrder ==
    (last.op = "list_tasks" /\ last.args.sort = NoneStr) =>
        LET a == last.args
            Passes(t) ==
                /\ a.status # NoneStr => t.status = a.status
                /\ a.tag # NoneStr => \E i \in 1..Len(t.tags) : t.tags[i] = a.tag
                /\ a.search # NoneVal =>
                        Within(a.search, t.title) \/ Within(a.search, t.desc)
        IN  last.result = SelectSeq(Stored, Passes)

\* A list_tasks with a tag and a search text that gave back the first and
\* the third of three tasks: the search text is in their descriptions only.
C10_Witness ==
    /\ last.op = "list_tasks"
    /\ last.args.sort = NoneStr
    /\ last.args.tag = "x"
    /\ last.args.search = <<"a", "b">>
    /\ Len(fileData) = 3
    /\ Len(last.result) = 2
    /\ last.result[1].id = 1
    /\ last.result[2].id = 3

----------------------------------------------------------------------------
(* C11 *)

\* The stored tasks that pass the filters of the query `a`.
Filtered(a) ==
    LET Passes(t) ==
            /\ a.status # NoneStr => t.status = a.status
            /\ a.tag # NoneStr => \E i \in 1..Len(t.tags) : t.tags[i] = a.tag
            /\ a.search # NoneVal =>
                    Within(a.search, t.title) \/ Within(a.search, t.desc)
    IN  SelectSeq(Stored, Passes)

\* C11: list_tasks with the sort key created_at, started_at or finished_at
\* gives back a permutation of the tasks that pass the filters, in
\* non-decreasing order of that key, every task whose value for the key is
\* None before every task whose value is set.
C11_ListSortedNoneFirst ==
    (last.op = "list_tasks" /\ last.args.sort \in SortKeys) =>
        LET key == last.args.sort
            res == last.result
            exp == Filtered(last.args)
        IN  /\ Len(res) = Len(exp)
            /\ \A i \in 1..Len(exp) : \E j \in 1..Len(res) : res[j] = exp[i]
            /\ \A i, j \in 1..Len(res) :
                    (res[i] = res[j]) => i = j
            /\ \A i, j \in 1..Len(res) :
                    i < j =>
                        \/ res[i][key] = NoneTime
                        \/ /\ res[j][key] # NoneTime
                           /\ res[i][key] <= res[j][key]

\* A list_tasks sorted by started_at over two tasks of which only the
\* first was started: the second task comes first in the result.
C11_Witness ==
    /\ last.op = "list_tasks"
    /\ last.args.sort = "started_at"
    /\ Len(last.result) = 2
    /\ last.result[1].id = 2
    /\ last.result[1].started_at = NoneTime
    /\ last.result[2].id = 1
    /\ last.result[2].started_at # NoneTime

----------------------------------------------------------------------------
(* C12 *)

\* C12: view_task and update_status called with an id that is no positive
\* integer tell the caller so (the error message, and None for a result)
\* without reading or writing the file, and the store stays as it was.
C12_InvalidIdTouchesNothing ==
    [][ ( /\ Did("view_task") \/ Did("update_status")
          /\ ~last'.id.isInt \/ last'.id.val <= 0 )
        => /\ last'.reads = 0
           /\ last'.writes = 0
           /\ "invalid_id" \in last'.diag
           /\ last'.ret = "None"
           /\ last'.result = << >>
           /\ ~last'.found
           /\ UNCHANGED <<fileKind, fileData>> ]_vars

\* update_status("1", "start") on a store that holds task 1: turned away.
C12_Witness ==
    /\ last.op = "update_status"
    /\ ~last.id.isInt
    /\ last.id.val \in IdsOf(Stored)
    /\ last.reads = 0
    /\ "invalid_id" \in last.diag

----------------------------------------------------------------------------
(* C13 *)

----------------------------------------------------------------------------
(* C14 *)

\* C14 as stated: every operation reads the file exactly once and writes
\* it at most once; list_tasks and view_task never write; delete_task and
\* update_status on an id that is not found do not write.
C14_ExactlyOneRead ==
    last.op # "none" =>
        /\ last.reads = 1
        /\ last.writes <= 1
        /\ last.op \in {"list_tasks", "view_task"} => last.writes = 0
        /\ (last.op \in {"delete_task", "update_status"} /\ ~last.found)
                => last.writes = 0

\* C14, amended: every operation reads the file at most once and writes it
\* at most once. It reads exactly once, except view_task and update_status
\* with an id that is no positive integer, which do not read. The file is
\* written exactly by new_task and by delete_task, update_status and
\* update_task on an id that is found; list_tasks, view_task and the
\* operations on an id that is not found leave the file as it is.
C14_AtMostOneReadOneWrite ==
    [][ (last'.op # "none" /\ <<nops, last>>' # <<nops, last>>) =>
          LET op == last'.op
              invalid == /\ op \in {"view_task", "update_status"}
                         /\ ~last'.id.isInt \/ last'.id.val <= 0
              present == \E i \in 1..Len(Stored) : IdEq(Stored[i], last'.id)
              writes == \/ op = "new_task"
                        \/ /\ op \in {"delete_task", "update_status", "update_task"}
                           /\ present
                           /\ ~invalid
          IN  /\ last'.reads = (IF invalid THEN 0 ELSE 1)
              /\ last'.writes = (IF writes THEN 1 ELSE 0)
              /\ ~writes => UNCHANGED <<fileKind, fileData>> ]_vars

\* view_task(0) on a store that holds a task: no read, no write.
C14_Witness ==
    /\ last.op = "view_task"
    /\ last.id = IntId(0)
    /\ last.reads = 0
    /\ last.writes = 0
    /\ Len(Stored) > 0

----------------------------------------------------------------------------
(* C15 *)

\* C15: load_tasks right after save_tasks gives back the collection that
\* was saved: as many tasks, in the same order, every field equal, for any
\* status and any tags, started_at and finished_at None included.
C15_SaveLoadRoundTrip ==
    last.op = "save_load" =>
        /\ Len(last.result) = Len(last.args)
        /\ \A i \in 1..Len(last.args) :
                /\ DOMAIN last.result[i] = DOMAIN last.args[i]
                /\ \A f \in DOMAIN last.args[i] :
                        last.result[i][f] = last.args[i][f]

\* Two tasks saved and loaded: one done that was never started, with two
\* tags, and one in progress with one tag.
C15_Witness ==
    /\ last.op = "save_load"
    /\ Len(last.args) = 2
    /\ last.args[1].status = "done"
    /\ last.args[1].started_at = NoneTime
    /\ last.args[1].finished_at # NoneTime
    /\ last.args[1].tags = <<"x", "y">>
    /\ last.args[2].status = "in_progress"
    /\ last.args[2].tags = <<"x">>
    /\ Len(last.result) = 2

----------------------------------------------------------------------------
(* C16 *)

\* C16: update_status(id, "start") on a task that is done succeeds: it
\* returns True, the status goes back to in_progress and finished_at keeps
\* the value it had, which is not None.
C16_StartOnDoneKeepsFinish ==
    [][ ( /\ Did("update_status")
          /\ last'.action = "start"
          /\ last'.id.isInt
          /\ last'.id.val \in IdsOf(Stored)
          /\ TaskWithId(Stored, last'.id.val).status = "done" )
        => LET old == TaskWithId(Stored, last'.id.val)
               new == TaskWithId(Stored', last'.id.val)
           IN  /\ last'.ret = "True"
               /\ new.status = "in_progress"
               /\ new.finished_at = old.finished_at
               /\ new.finished_at # NoneTime ]_vars

\* A task started after it was finished: in progress with a finish time.
C16_Witness ==
    /\ last.op = "update_status"
    /\ last.action = "start"
    /\ last.ret = "True"
    /\ \E i \in 1..Len(Stored) :
            /\ Stored[i].id = last.id.val
            /\ Stored[i].status = "in_progress"
            /\ Stored[i].finished_at # NoneTime

----------------------------------------------------------------------------
(* C17 *)

\* The state part of C17: created_at is set; a task that is todo has no
\* started_at and no finished_at; a task in progress has started_at set; a
\* task that is done has finished_at set.
C17_TimestampsMatchStatus ==
    \A i \in 1..Len(Stored) :
        LET t == Stored[i]
        IN  /\ t.created_at # NoneTime
            /\ t.status = "todo" =>
                    t.started_at = NoneTime /\ t.finished_at = NoneTime
            /\ t.status = "in_progress" => t.started_at # NoneTime
            /\ t.status = "done" => t.finished_at # NoneTime

\* C17: every stored task has created_at set; started_at (finished_at) is
\* set only if a start (finish) was applied to the task: a task enters the
\* store with both None, and a value goes from None to set only in a start
\* (finish) of that very task. So a todo task has both None, a task in
\* progress has started_at set and a done task has finished_at set.
C17_TimestampsFollowTransitions ==
    /\ C17_TimestampsMatchStatus
    /\ [][/\ C17_TimestampsMatchStatus'
          /\ \A j \in 1..Len(Stored') :
                LET new == Stored'[j]
                    fresh == \/ new.id \notin IdsOf(Stored)
                             \/ Did("new_task") /\ j = Len(Stored')
                IN  \A field \in {"started_at", "finished_at"} :
                        IF fresh
                        THEN new[field] = NoneTime
                        ELSE (/\ TaskWithId(Stored, new.id)[field] = NoneTime
                              /\ new[field] # NoneTime)
                             => /\ Did("update_status")
                                /\ last'.id.val = new.id
                                /\ last'.action =
                                     (IF field = "started_at" THEN "start"
                                      ELSE "finish")]_vars

\* A task finished without ever having been started: done, finished_at
\* set, started_at None.
C17_Witness ==
    /\ last.op = "update_status"
    /\ last.action = "finish"
    /\ \E i \in 1..Len(Stored) :
            /\ Stored[i].id = last.id.val
            /\ Stored[i].status = "done"
            /\ Stored[i].started_at = NoneTime
            /\ Stored[i].finished_at # NoneTime

----------------------------------------------------------------------------
(* C18 *)

\* C18: when two new_task processes have both loaded the file before
\* either saved, they have computed the same id, and once both have saved
\* the file holds what they loaded plus the task of the one that saved
\* last: one task more, not two, and the other task is not in the file.
C18_LastWriterWins ==
    \A p, q \in Procs :
        ( /\ p # q
          /\ procs[p].pc = "saved"
          /\ procs[q].pc = "saved"
          /\ procs[p].tasks = procs[q].tasks
          /\ last.op = "new_task"
          /\ last.args = [proc |-> q] )
        => /\ procs[p].task.id = procs[q].task.id
           /\ Len(fileData) = Len(procs[q].tasks) + 1
           /\ fileData = Append(procs[q].tasks, procs[q].task)
           /\ procs[p].task # procs[q].task =>
                    \A i \in 1..Len(fileData) : fileData[i] # procs[p].task

\* Both processes loaded the store of one task, process 1 saved, then
\* process 2: the file holds two tasks, the second one that of process 2,
\* and the task of process 1, a different one with the same id, is gone.
C18_Witness ==
    /\ procs[1].pc = "saved"
    /\ procs[2].pc = "saved"
    /\ Len(procs[1].tasks) = 1
    /\ procs[1].tasks = procs[2].tasks
    /\ procs[1].task.id = 2
    /\ procs[2].task.id = 2
    /\ procs[1].task # procs[2].task
    /\ last.args = [proc |-> 2]
    /\ Len(fileData) = 2
    /\ fileData[2] = procs[2].task

----------------------------------------------------------------------------
(* C19 *)

\* C19: update_status and update_task change neither the id, the tags nor
\* created_at of any task, nor the number or the order of the tasks, and
\* they change no field of a task whose id is not the one they were given.
C19_UpdatesKeepIdentityAndOthers ==
    [][ (Did("update_status") \/ Did("update_task")) =>
          /\ Len(Stored') = Len(Stored)
          /\ \A i \in 1..Len(Stored) :
                /\ Stored'[i].id = Stored[i].id
                /\ Stored'[i].tags = Stored[i].tags
                /\ Stored'[i].created_at = Stored[i].created_at
                /\ ~IdEq(Stored[i], last'.id) => Stored'[i] = Stored[i] ]_vars

\* update_task gave task 1 a new title a minute after the two tasks of the
\* store were created; task 2, with its tags, is as it was.
C19_Witness ==
    /\ last.op = "update_task"
    /\ last.found
    /\ last.id = IntId(1)
    /\ last.args.title = <<"d">>
    /\ Len(Stored) = 2
    /\ Stored[1].title = <<"d">>
    /\ Stored[1].created_at # Strftime(now)
    /\ Stored[2].id = 2
    /\ Stored[2].tags = <<"x", "y">>

----------------------------------------------------------------------------
(* C20 *)

\* The state part of C20: every stored status is todo, in_progress or done.
C20_StatusInDomain ==
    \A i \in 1..Len(Stored) : Stored[i].status \in Statuses

====
